---- MODULE Spec2Model ----
(***************************************************************************)
(* The tool-calling loop of ctlmind: main() (src/main.py) reads prompts    *)
(* and calls process_chat (src/llm.py), which invokes the model, runs the  *)
(* requested tools one after the other and feeds the results back until    *)
(* the model answers without tool calls or max_iterations is reached.      *)
(***************************************************************************)
EXTENDS Integers, Sequences, FiniteSets, TLC

\* ---------------------------------------------------------------- bounds
\* Largest number of tool calls in one model response.
MaxCalls == 2
\* Largest number of prompts the operator types in one session.
MaxTurns == 2
\* Largest number of model responses per session that differ from the
\* plain one (a single call of a registered tool); the final answer without
\* tool calls is always possible and is not counted.
MaxVaried == 1

\* Largest number of tools in a list the registry is built from.
MaxTools == 3

\* Longest unit name handed to a tool, in characters.
MaxNameLen == 3
\* Longest list of units in one dependency property.
MaxDeps == 2
\* Largest number of units the service manager lists.
MaxUnits == 3

\* ------------------------------------------------------ program constants
\* llm.py:17  max_iterations = 10
max_iterations == 10

\* llm.py:7-9  the names of the registered tools
tool_map ==
  {"get_unit_status", "get_journal_logs", "list_failed_units", "get_unit_dependencies"}

\* The names the model may put into a tool call: a registered one and one
\* that no tool carries.
CallNames == {"get_unit_status", "restart_unit"}

\* The ids the model gives to the tool calls of a response of n calls: they
\* are opaque to the program, unique within the response, and here run
\* downwards so that an id never stands for a position by accident.
CallId(n, i) == n + 1 - i

\* The value of ai_response before the first model invocation (llm.py:19).
None == [type |-> "none"]

\* ------------------------------------------------------------- messages
HumanMessage == [type |-> "human"]

AIMessage(calls) == [type |-> "ai", tool_calls |-> calls]

\* llm.py:42-45 and 51-54
ToolMessage(content, id) == [type |-> "tool", content |-> content, tool_call_id |-> id]

\* llm.py:43  str(tool_output) of the tool called name
ToolOutput(name) == [kind |-> "output", tool |-> name]

\* llm.py:49  f"Tool '{name}' not found in available tools"
NotFound(name) == [kind |-> "not_found", tool |-> name]

ToolCall(id, name) == [id |-> id, name |-> name]

\* The tool-call lists of a response: at most MaxCalls calls, any names.
CallLists ==
  UNION { { [i \in 1..n |-> ToolCall(CallId(n, i), names[i])] : names \in [1..n -> CallNames] } :
          n \in 0..MaxCalls }

\* The plain response: one call of a registered tool.
PlainCalls == << ToolCall(1, "get_unit_status") >>

IsVaried(calls) == calls # << >> /\ calls # PlainCalls

VARIABLES
  pc,                \* where main()/process_chat stand
  chat_history,      \* main.py:8   the caller's transcript
  current_messages,  \* llm.py:16   the working transcript of the turn
  iteration,         \* llm.py:18
  ai_response,       \* llm.py:19
  tool_messages,     \* llm.py:34
  next_call,         \* position of the for loop of llm.py:35
  llm_input,         \* the transcript handed to the last ainvoke (llm.py:23)
  model_calls,       \* model invocations made in this turn
  executed,          \* ids of the calls of ai_response whose tool was invoked
  capped,            \* the warning of llm.py:62 was printed in this turn
  responses,         \* the responses the model gave in this turn, in order
  tool_invocations,  \* tool invocations made in this turn (llm.py:39)
  lookups,           \* tool_map lookups made in this turn (llm.py:36)
  raised_by,         \* the call whose exception ended the program, or "none"
  turns,             \* prompts read so far
  varied             \* varied responses given so far

\* The state of main() and process_chat.
loop_vars == << pc, chat_history, current_messages, iteration, ai_response,
                tool_messages, next_call, llm_input, model_calls, executed,
                capped, responses, tool_invocations, lookups, raised_by, turns,
                varied >>

VARIABLES
  tools,             \* llm.py:7   the list the registry is built from
  registry,          \* llm.py:9   the dict built from it, or Unbuilt
  tool_call,         \* the tool invocation under way or done, or Idle
  manager_query,     \* what the tool asked of systemd or journalctl
  tool_output        \* the value the tool returned

\* The state of the registry and of the tools of systemd.py.
tool_vars == << tools, registry, tool_call, manager_query, tool_output >>

vars == << loop_vars, tool_vars >>

Unbuilt == [state |-> "unbuilt"]

Idle == [state |-> "idle"]

\* A tool as llm.py:7 lists it: its name and the function behind it.
Tool(name, fn) == [name |-> name, fn |-> fn]

\* llm.py:3 and 7: the four tools of systemd.py, in the order of the list.
ToolList ==
  << Tool("get_unit_status", "get_unit_status"),
     Tool("get_journal_logs", "get_journal_logs"),
     Tool("list_failed_units", "list_failed_units"),
     Tool("get_unit_dependencies", "get_unit_dependencies") >>

\* llm.py:9  {tool.name: tool for tool in tools}: a dict comprehension keeps,
\* for each name, the last tool of the list that carries it.
ToolMapOf(ts) ==
  [ n \in { ts[i].name : i \in 1..Len(ts) } |->
      ts[CHOOSE i \in 1..Len(ts) :
           /\ ts[i].name = n
           /\ \A j \in (i + 1)..Len(ts) : ts[j].name # n] ]

\* llm.py:6-9 done, no tool called.
ToolsAtRest ==
  /\ tools = ToolList
  /\ registry = ToolMapOf(ToolList)
  /\ tool_call = Idle
  /\ manager_query = Idle
  /\ tool_output = Idle

\* main.py:7-8
Init ==
  /\ pc = "prompt"
  /\ chat_history = << >>
  /\ current_messages = << >>
  /\ iteration = 0
  /\ ai_response = None
  /\ tool_messages = << >>
  /\ next_call = 1
  /\ llm_input = << >>
  /\ model_calls = 0
  /\ executed = {}
  /\ capped = FALSE
  /\ responses = << >>
  /\ tool_invocations = 0
  /\ lookups = 0
  /\ raised_by = "none"
  /\ turns = 0
  /\ varied = 0
  /\ ToolsAtRest

\* main.py:11-18 and llm.py:16-19: a prompt is read, appended to the
\* history, and process_chat starts on a copy of the history.
ReadPrompt ==
  /\ pc = "prompt"
  /\ turns < MaxTurns
  /\ turns' = turns + 1
  /\ chat_history' = Append(chat_history, HumanMessage)
  /\ current_messages' = chat_history'
  /\ iteration' = 0
  /\ ai_response' = None
  /\ tool_messages' = << >>
  /\ next_call' = 1
  /\ model_calls' = 0
  /\ executed' = {}
  /\ capped' = FALSE
  /\ responses' = << >>
  /\ tool_invocations' = 0
  /\ lookups' = 0
  /\ pc' = "loop"
  /\ UNCHANGED << llm_input, raised_by, varied >>
  /\ UNCHANGED tool_vars

\* main.py:12-14 and 24-26: exit, quit, Ctrl-C or end of input.
Exit ==
  /\ pc = "prompt"
  /\ pc' = "exited"
  /\ UNCHANGED << chat_history, current_messages, iteration, ai_response,
                  tool_messages, next_call, llm_input, model_calls, executed,
                  capped, responses, tool_invocations, lookups, raised_by,
                  turns, varied >>
  /\ UNCHANGED tool_vars

\* The loop of llm.py:21 written with <= : one model invocation too many.
LoopCondition_OffByOne == iteration <= max_iterations

\* The loop of llm.py:21 stopping one round early.
LoopCondition_OneShort == iteration < max_iterations - 1

\* llm.py:21-34: the loop condition holds, the model is invoked and answers;
\* without tool calls the response is returned, otherwise dispatch starts.
LoopCondition == iteration < max_iterations

\* The test of llm.py:26 never taking the return.
IsFixpoint_Never(r) == FALSE

\* llm.py:26
IsFixpoint(r) == r.tool_calls = << >>

\* A return that first records the response in the working transcript.
ReturnFixpoint_Appends ==
  /\ pc' = "returned"
  /\ current_messages' = Append(current_messages, ai_response')
  /\ UNCHANGED << tool_messages, next_call >>

\* llm.py:26-27: the response is returned as it is; nothing else changes.
ReturnFixpoint ==
  /\ pc' = "returned"
  /\ UNCHANGED << current_messages, tool_messages, next_call >>

\* llm.py:30-35: the tool calls are printed and the for loop starts on an
\* empty list of tool messages.
StartDispatch ==
  /\ pc' = "dispatch"
  /\ tool_messages' = << >>
  /\ next_call' = 1
  /\ UNCHANGED current_messages

InvokeModel ==
  /\ pc = "loop"
  /\ LoopCondition
  /\ \E calls \in CallLists :
       /\ IsVaried(calls) => varied < MaxVaried
       /\ varied' = IF IsVaried(calls) THEN varied + 1 ELSE varied
       /\ ai_response' = AIMessage(calls)
  /\ IF IsFixpoint(ai_response') THEN ReturnFixpoint ELSE StartDispatch
  /\ llm_input' = current_messages
  /\ model_calls' = model_calls + 1
  /\ responses' = Append(responses, ai_response')
  /\ executed' = {}
  /\ UNCHANGED << chat_history, iteration, capped, tool_invocations, lookups,
                  raised_by, turns >>
  /\ UNCHANGED tool_vars

\* The failure of the model invocation caught in the loop and the call made
\* again.
ModelFails_Retried ==
  /\ pc = "loop"
  /\ iteration < max_iterations
  /\ model_calls < max_iterations
  /\ llm_input' = current_messages
  /\ model_calls' = model_calls + 1
  /\ raised_by' = "model"
  /\ UNCHANGED << pc, chat_history, current_messages, iteration, ai_response,
                  tool_messages, next_call, executed, capped, responses,
                  tool_invocations, lookups, turns, varied >>
  /\ UNCHANGED tool_vars

\* llm.py:23: the model invocation raises; nothing catches it in
\* process_chat, and main() catches only KeyboardInterrupt and EOFError.
ModelFails ==
  /\ pc = "loop"
  /\ LoopCondition
  /\ llm_input' = current_messages
  /\ model_calls' = model_calls + 1
  /\ pc' = "raised"
  /\ raised_by' = "model"
  /\ UNCHANGED << chat_history, current_messages, iteration, ai_response,
                  tool_messages, next_call, executed, capped, responses,
                  tool_invocations, lookups, turns, varied >>
  /\ UNCHANGED tool_vars

\* llm.py:36-37
Registered(name) == name \in tool_map

CurrentCall == ai_response.tool_calls[next_call]

InDispatch ==
  /\ pc = "dispatch"
  /\ next_call <= Len(ai_response.tool_calls)

\* llm.py:36-46: the tool is found, invoked and returns.
DispatchTool ==
  /\ InDispatch
  /\ Registered(CurrentCall.name)
  /\ executed' = executed \cup {CurrentCall.id}
  /\ tool_messages' =
       Append(tool_messages, ToolMessage(ToolOutput(CurrentCall.name), CurrentCall.id))
  /\ next_call' = next_call + 1
  /\ lookups' = lookups + 1
  /\ tool_invocations' = tool_invocations + 1
  /\ UNCHANGED << pc, chat_history, current_messages, iteration, ai_response,
                  llm_input, model_calls, capped, responses, raised_by, turns,
                  varied >>
  /\ UNCHANGED tool_vars

\* llm.py:39: the awaited tool invocation raises (for instance arguments the
\* tool's schema rejects); no handler surrounds it in process_chat or main().
DispatchToolRaises ==
  /\ InDispatch
  /\ Registered(CurrentCall.name)
  /\ executed' = executed \cup {CurrentCall.id}
  /\ pc' = "raised"
  /\ raised_by' = "tool"
  /\ lookups' = lookups + 1
  /\ tool_invocations' = tool_invocations + 1
  /\ UNCHANGED << chat_history, current_messages, iteration, ai_response,
                  tool_messages, next_call, llm_input, model_calls, capped,
                  responses, turns, varied >>
  /\ UNCHANGED tool_vars

\* tool_map[name] in place of tool_map.get(name): a KeyError leaves the turn.
DispatchNotFound_KeyError ==
  /\ pc = "dispatch"
  /\ next_call <= Len(ai_response.tool_calls)
  /\ ai_response.tool_calls[next_call].name \notin tool_map
  /\ pc' = "raised"
  /\ raised_by' = "lookup"
  /\ lookups' = lookups + 1
  /\ UNCHANGED << chat_history, current_messages, iteration, ai_response,
                  tool_messages, next_call, llm_input, model_calls, executed,
                  capped, responses, tool_invocations, turns, varied >>
  /\ UNCHANGED tool_vars

\* llm.py:47-55: no tool of that name.
DispatchNotFound ==
  /\ InDispatch
  /\ ~Registered(CurrentCall.name)
  /\ tool_messages' =
       Append(tool_messages, ToolMessage(NotFound(CurrentCall.name), CurrentCall.id))
  /\ next_call' = next_call + 1
  /\ lookups' = lookups + 1
  /\ UNCHANGED << pc, chat_history, current_messages, iteration, ai_response,
                  llm_input, model_calls, executed, capped, responses,
                  tool_invocations, raised_by, turns, varied >>
  /\ UNCHANGED tool_vars

\* llm.py:16 without the copy (messages in place of messages[:]): the extend
\* of llm.py:58 then grows the caller's list as well.
Fold_Aliased ==
  /\ pc = "dispatch"
  /\ next_call > Len(ai_response.tool_calls)
  /\ current_messages' = current_messages \o << ai_response >> \o tool_messages
  /\ chat_history' = chat_history \o << ai_response >> \o tool_messages
  /\ iteration' = iteration + 1
  /\ pc' = "loop"
  /\ UNCHANGED << ai_response, tool_messages, next_call,
                  llm_input, model_calls, executed, capped, responses,
                  tool_invocations, lookups, raised_by, turns, varied >>
  /\ UNCHANGED tool_vars

\* The extend of llm.py:58 moved into the for loop: it runs after the first
\* tool call of the round.
Fold_Early ==
  /\ pc = "dispatch"
  /\ next_call > 1
  /\ current_messages' = current_messages \o << ai_response >> \o tool_messages
  /\ iteration' = iteration + 1
  /\ pc' = "loop"
  /\ UNCHANGED << chat_history, ai_response, tool_messages, next_call,
                  llm_input, model_calls, executed, capped, responses,
                  tool_invocations, lookups, raised_by, turns, varied >>
  /\ UNCHANGED tool_vars

\* llm.py:58-59: after the for loop the response and the tool messages are
\* appended to the working transcript.
Fold ==
  /\ pc = "dispatch"
  /\ next_call > Len(ai_response.tool_calls)
  /\ current_messages' = current_messages \o << ai_response >> \o tool_messages
  /\ iteration' = iteration + 1
  /\ pc' = "loop"
  /\ UNCHANGED << chat_history, ai_response, tool_messages, next_call,
                  llm_input, model_calls, executed, capped, responses,
                  tool_invocations, lookups, raised_by, turns, varied >>
  /\ UNCHANGED tool_vars

\* The return after the loop taken one round early.
CapReturn_OneShort ==
  /\ pc = "loop"
  /\ iteration >= max_iterations - 1
  /\ capped' = TRUE
  /\ pc' = "returned"
  /\ UNCHANGED << chat_history, current_messages, iteration, ai_response,
                  tool_messages, next_call, llm_input, model_calls, executed,
                  responses, tool_invocations, lookups, raised_by, turns,
                  varied >>
  /\ UNCHANGED tool_vars

\* llm.py:61-65: the loop condition fails; warn and return the last response.
CapReturn ==
  /\ pc = "loop"
  /\ ~LoopCondition
  /\ capped' = TRUE
  /\ pc' = "returned"
  /\ UNCHANGED << chat_history, current_messages, iteration, ai_response,
                  tool_messages, next_call, llm_input, model_calls, executed,
                  responses, tool_invocations, lookups, raised_by, turns,
                  varied >>
  /\ UNCHANGED tool_vars

\* main.py:18-22: the returned response is appended to the history.
AppendResponse ==
  /\ pc = "returned"
  /\ chat_history' = Append(chat_history, ai_response)
  /\ pc' = "prompt"
  /\ UNCHANGED << current_messages, iteration, ai_response, tool_messages,
                  next_call, llm_input, model_calls, executed, capped,
                  responses, tool_invocations, lookups, raised_by, turns,
                  varied >>
  /\ UNCHANGED tool_vars

Next ==
  \/ ReadPrompt
  \/ Exit
  \/ InvokeModel
  \/ ModelFails
  \/ DispatchTool
  \/ DispatchToolRaises
  \/ DispatchNotFound
  \/ Fold
  \/ CapReturn
  \/ AppendResponse

Spec == Init /\ [][Next]_vars

\* The steps of process_chat.
TurnStep ==
  \/ InvokeModel
  \/ ModelFails
  \/ DispatchTool
  \/ DispatchToolRaises
  \/ DispatchNotFound
  \/ Fold
  \/ CapReturn

\* main.py:16-20: the histories main() hands to process_chat in its first
\* turns: the prompt alone, or the prompt after a turn that ended with a
\* final answer or with the plain response left by the cap.
Histories ==
  { << HumanMessage >> } \cup
  { << HumanMessage, AIMessage(calls), HumanMessage >> : calls \in { << >>, PlainCalls } }

\* llm.py:16-19: process_chat entered with one of these histories.
TurnInit ==
  /\ pc = "loop"
  /\ chat_history \in Histories
  /\ current_messages = chat_history
  /\ iteration = 0
  /\ ai_response = None
  /\ tool_messages = << >>
  /\ next_call = 1
  /\ llm_input = << >>
  /\ model_calls = 0
  /\ executed = {}
  /\ capped = FALSE
  /\ responses = << >>
  /\ tool_invocations = 0
  /\ lookups = 0
  /\ raised_by = "none"
  /\ turns = (Len(chat_history) + 1) \div 2
  /\ varied = 0
  /\ ToolsAtRest

\* One call of process_chat: a single task that the event loop keeps
\* running, each awaited call coming back.
TurnSpec == TurnInit /\ [][TurnStep]_vars /\ WF_vars(TurnStep)

\* ------------------------------------------------------- the registry
\* The loop state at rest, for the specifications of the registry and of
\* the tools, which run no turn.
LoopAtRest ==
  /\ pc = "prompt"
  /\ chat_history = << >>
  /\ current_messages = << >>
  /\ iteration = 0
  /\ ai_response = None
  /\ tool_messages = << >>
  /\ next_call = 1
  /\ llm_input = << >>
  /\ model_calls = 0
  /\ executed = {}
  /\ capped = FALSE
  /\ responses = << >>
  /\ tool_invocations = 0
  /\ lookups = 0
  /\ raised_by = "none"
  /\ turns = 0
  /\ varied = 0

\* The lists of tools llm.py:7 could hold: at most MaxTools tools, two names,
\* two functions.
ToolLists ==
  UNION { [1..n -> { Tool(name, fn) : name \in {"get_unit_status", "get_journal_logs"},
                                      fn \in {"f", "g"} }] :
          n \in 0..MaxTools }

\* llm.py:7: the module is being imported, the list is written, the dict is
\* not built yet.
RegistryInit ==
  /\ LoopAtRest
  /\ tools \in ToolLists
  /\ registry = Unbuilt
  /\ tool_call = Idle
  /\ manager_query = Idle
  /\ tool_output = Idle

\* llm.py:9: the dict is built; no test of the names precedes it.
BuildToolMap ==
  /\ registry = Unbuilt
  /\ registry' = ToolMapOf(tools)
  /\ UNCHANGED << tools, tool_call, manager_query, tool_output >>
  /\ UNCHANGED loop_vars

RegistrySpec == RegistryInit /\ [][BuildToolMap]_vars

\* ------------------------------------------------- the tools of systemd.py
\* A unit name is a string, here a sequence of characters; the names a tool
\* may be handed, with and without a dot.
UnitNames == UNION { [1..n -> {"a", "."}] : n \in 0..MaxNameLen }

\* ".service" as f"{unit_name}.service" appends it.
DefaultSuffix == << ".", "s", "e", "r", "v", "i", "c", "e" >>

\* '.' in unit_name
HasDot(unit_name) == \E i \in 1..Len(unit_name) : unit_name[i] = "."

\* systemd.py:29-30
StatusUnitName(unit_name) ==
  IF ~HasDot(unit_name) THEN unit_name \o DefaultSuffix ELSE unit_name

\* A suffix test in place of the test for a dot.
JournalUnitName_EndsWith(unit_name) ==
  IF Len(unit_name) >= Len(DefaultSuffix)
     /\ SubSeq(unit_name, Len(unit_name) - Len(DefaultSuffix) + 1, Len(unit_name)) = DefaultSuffix
    THEN unit_name
    ELSE unit_name \o DefaultSuffix

\* systemd.py:41-42
JournalUnitName(unit_name) ==
  IF ~HasDot(unit_name) THEN unit_name \o DefaultSuffix ELSE unit_name

\* systemd.py:70-71
DependenciesUnitName(unit_name) ==
  IF ~HasDot(unit_name) THEN unit_name \o DefaultSuffix ELSE unit_name

\* systemd.py:25-35: the ActiveState of the unit is asked for and returned;
\* any exception becomes an error text naming the unit.
get_unit_status ==
  \E unit_name \in UnitNames, reply \in {"active", "inactive", "failed", "exception"} :
    LET name == StatusUnitName(unit_name)
    IN  /\ tool_call = Idle
        /\ tool_call' = [tool |-> "get_unit_status", unit_name |-> unit_name, reply |-> reply]
        /\ manager_query' = [op |-> "ActiveState", unit |-> name]
        /\ tool_output' = IF reply = "exception"
                            THEN [text |-> "status_error", unit |-> name]
                            ELSE [text |-> reply]
        /\ UNCHANGED << tools, registry >>
        /\ UNCHANGED loop_vars

\* systemd.py:37-65: journalctl -u unit_name -n lines is run; its output is
\* returned, and a non-zero exit, a missing journalctl or any other exception
\* becomes an error text.
get_journal_logs ==
  \E unit_name \in UnitNames, lines \in {1, 10},
     reply \in {"stdout", "nonzero", "FileNotFoundError", "exception"} :
    LET name == JournalUnitName(unit_name)
    IN  /\ tool_call = Idle
        /\ tool_call' = [tool |-> "get_journal_logs", unit_name |-> unit_name,
                         lines |-> lines, reply |-> reply]
        /\ manager_query' = [op |-> "journalctl", unit |-> name, lines |-> lines]
        /\ tool_output' =
             CASE reply = "stdout" -> [text |-> "journal", unit |-> name, lines |-> lines]
               [] reply = "nonzero" -> [text |-> "journal_error", unit |-> name]
               [] reply = "FileNotFoundError" -> [text |-> "journalctl_not_found"]
               [] OTHER -> [text |-> "unexpected_error", unit |-> name]
        /\ UNCHANGED << tools, registry >>
        /\ UNCHANGED loop_vars

\* A dependency property as systemd returns it: a list of units.
DepLists == { [i \in 1..n |-> [unit |-> i]] : n \in 0..MaxDeps }

\* The summary counting the ordering properties among the dependencies.
DependencySummary_CountsOrdering(requires, wants, after, before, required_by, wanted_by) ==
  [ total_dependencies |-> Len(requires) + Len(wants) + Len(after),
    total_dependents |-> Len(required_by) + Len(wanted_by) + Len(before),
    has_hard_dependencies |-> requires # << >>,
    has_soft_dependencies |-> wants # << >>,
    has_dependents |-> (required_by # << >> \/ wanted_by # << >> \/ before # << >>) ]

\* systemd.py:94-100
DependencySummary(requires, wants, after, before, required_by, wanted_by) ==
  [ total_dependencies |-> Len(requires) + Len(wants),
    total_dependents |-> Len(required_by) + Len(wanted_by),
    has_hard_dependencies |-> requires # << >>,
    has_soft_dependencies |-> wants # << >>,
    has_dependents |-> (IF required_by # << >> THEN required_by ELSE wanted_by) # << >> ]

\* systemd.py:67-111: the six properties are read and returned with the
\* summary; any exception becomes a record with the error and no
\* dependencies.
get_unit_dependencies ==
  \E unit_name \in UnitNames :
    LET name == DependenciesUnitName(unit_name)
    IN  /\ tool_call = Idle
        /\ manager_query' = [op |-> "Dependencies", unit |-> name]
        /\ \/ \E requires, wants, after, before, required_by, wanted_by \in DepLists :
                /\ tool_call' =
                     [tool |-> "get_unit_dependencies", unit_name |-> unit_name,
                      reply |-> "properties",
                      requires |-> requires, wants |-> wants, after |-> after,
                      before |-> before, required_by |-> required_by,
                      wanted_by |-> wanted_by]
                /\ tool_output' =
                     [unit_name |-> name,
                      dependencies |->
                        [requires |-> requires, wants |-> wants, after |-> after,
                         before |-> before, required_by |-> required_by,
                         wanted_by |-> wanted_by],
                      summary |-> DependencySummary(requires, wants, after, before,
                                                    required_by, wanted_by)]
           \/ /\ tool_call' = [tool |-> "get_unit_dependencies", unit_name |-> unit_name,
                               reply |-> "exception"]
              /\ tool_output' = [unit_name |-> name, error |-> "exception",
                                 dependencies |-> None]
        /\ UNCHANGED << tools, registry >>
        /\ UNCHANGED loop_vars

\* A unit as ListUnits returns it: name, description, load state, active
\* state, sub state; Python's unit[0] is the first field, unit[3] the fourth.
ListedUnits ==
  { << name, "description", "loaded", state[1], state[2] >> :
      name \in {"a.service", "b.service"},
      state \in { << "active", "running" >>, << "failed", "failed" >> } }

UnitListings == UNION { [1..n -> ListedUnits] : n \in 0..MaxUnits }

\* The comprehension testing the field before the active state.
FailedUnitsOf_LoadState(units) ==
  LET RECURSIVE Collect(_)
      Collect(i) ==
        IF i > Len(units) THEN << >>
        ELSE IF units[i][3] = "failed" THEN << units[i][1] >> \o Collect(i + 1)
        ELSE Collect(i + 1)
  IN  Collect(1)

\* systemd.py:121  [unit[0] for unit in units if unit[3] == 'failed']
FailedUnitsOf(units) ==
  LET RECURSIVE Collect(_)
      Collect(i) ==
        IF i > Len(units) THEN << >>
        ELSE IF units[i][4] = "failed" THEN << units[i][1] >> \o Collect(i + 1)
        ELSE Collect(i + 1)
  IN  Collect(1)

\* systemd.py:113-137: the units are listed and the failed ones returned with
\* their count; any exception becomes an empty result with the error.
list_failed_units ==
  /\ tool_call = Idle
  /\ manager_query' = [op |-> "ListUnits"]
  /\ \/ \E units \in UnitListings :
          LET failed_units == FailedUnitsOf(units)
          IN  /\ tool_call' = [tool |-> "list_failed_units", reply |-> "units", units |-> units]
              /\ tool_output' =
                   [failed_units |-> failed_units,
                    count |-> Len(failed_units),
                    has_failures |-> Len(failed_units) > 0,
                    summary |-> IF failed_units # << >>
                                  THEN [text |-> "found_failed", n |-> Len(failed_units)]
                                  ELSE [text |-> "no_failed_units_found"]]
     \/ /\ tool_call' = [tool |-> "list_failed_units", reply |-> "exception"]
        /\ tool_output' =
             [failed_units |-> << >>, count |-> 0, has_failures |-> FALSE,
              error |-> "exception", summary |-> [text |-> "listing_error"]]
  /\ UNCHANGED << tools, registry >>
  /\ UNCHANGED loop_vars

ToolsInit == LoopAtRest /\ ToolsAtRest

ToolsNext ==
  \/ get_unit_status
  \/ get_journal_logs
  \/ get_unit_dependencies
  \/ list_failed_units

\* One call of a tool, with any arguments and any answer of the service
\* manager.
ToolsSpec == ToolsInit /\ [][ToolsNext]_vars

\* ------------------------------------------------------------ properties
InTurn == pc \in {"loop", "dispatch"}

AllRequest(rs) == \A k \in 1..Len(rs) : rs[k].tool_calls # << >>

AllRegistered(calls) == \A i \in 1..Len(calls) : calls[i].name \in tool_map

\* A step of llm.py:58: the round's fold.
FoldStep == pc = "dispatch" /\ pc' = "loop"

\* C1: as long as no model call and no tool call raises, every turn that
\* has started comes to the return of process_chat, and a turn never makes
\* more than max_iterations model invocations.
C1_TerminatesWithinCap ==
  /\ [](model_calls <= max_iterations)
  /\ ([](pc # "raised") => <>(pc = "returned"))

C1_Witness == pc = "returned" /\ model_calls = max_iterations

\* C2: when every response of the turn carried at least one tool call,
\* process_chat has returned after exactly max_iterations model invocations
\* and returns the response of the last of them; no further invocation is
\* possible once max_iterations rounds are done.
C2_ExactlyCapInvocations ==
  /\ (pc = "returned" /\ AllRequest(responses)) =>
       /\ model_calls = max_iterations
       /\ Len(responses) = max_iterations
       /\ ai_response = responses[max_iterations]
  /\ model_calls <= max_iterations
  /\ (pc = "loop" /\ model_calls = max_iterations) => ~ENABLED InvokeModel

C2_Witness ==
  /\ pc = "returned"
  /\ AllRequest(responses)
  /\ Len(responses) = max_iterations

\* C3: when the first response of the turn has no tool calls, process_chat
\* returns that response after one model invocation, with no lookup, no
\* tool invocation and the working transcript still the copy of the history.
C3_FixpointInOneRound ==
  (pc = "returned" /\ responses # << >> /\ responses[1].tool_calls = << >>) =>
    /\ ai_response = responses[1]
    /\ model_calls = 1
    /\ lookups = 0
    /\ tool_invocations = 0
    /\ tool_messages = << >>
    /\ current_messages = chat_history

C3_Witness ==
  /\ pc = "returned"
  /\ responses # << >>
  /\ responses[1].tool_calls = << >>
  /\ Len(chat_history) > 1

\* C4: the fold of a round whose N tool calls are all registered appends the
\* response followed by exactly N tool messages, the i-th carrying the id of
\* the i-th call; it happens when every call of the round has been run, and
\* the working transcript does not change before it.
C4_ResultsInRequestOrder ==
  [][ /\ (FoldStep /\ AllRegistered(ai_response.tool_calls)) =>
          LET calls == ai_response.tool_calls
              N == Len(calls)
              old == Len(current_messages)
          IN  /\ Len(current_messages') = old + 1 + N
              /\ SubSeq(current_messages', 1, old) = current_messages
              /\ current_messages'[old + 1] = ai_response
              /\ \A i \in 1..N :
                   /\ current_messages'[old + 1 + i].type = "tool"
                   /\ current_messages'[old + 1 + i].tool_call_id = calls[i].id
                   /\ current_messages'[old + 1 + i].content = ToolOutput(calls[i].name)
              /\ executed = { calls[i].id : i \in 1..N }
              /\ Len(tool_messages) = N
      /\ (pc = "dispatch" /\ pc' = "dispatch") => current_messages' = current_messages
    ]_vars

C4_Witness ==
  /\ pc = "loop"
  /\ iteration > 0
  /\ Len(ai_response.tool_calls) = 2
  /\ AllRegistered(ai_response.tool_calls)
  /\ Len(current_messages) >= 4
  /\ current_messages[Len(current_messages)].tool_call_id = ai_response.tool_calls[2].id

\* C5: a tool call whose name no tool carries never raises: the step that
\* handles it invokes no tool, adds one tool message with the call's id and
\* the not-found text, and leaves the for loop on the next call; the round
\* is folded with one message per call, and the loop goes on.
C5_UnknownToolRecovered ==
  /\ [][ /\ (InDispatch /\ ~(CurrentCall.name \in tool_map)) =>
              /\ pc' = "dispatch"
              /\ raised_by' = "none"
              /\ tool_invocations' = tool_invocations
              /\ executed' = executed
              /\ next_call' = next_call + 1
              /\ tool_messages' =
                   Append(tool_messages,
                          [type |-> "tool", content |-> NotFound(CurrentCall.name),
                           tool_call_id |-> CurrentCall.id])
         /\ FoldStep => Len(current_messages') = Len(current_messages) + 1 + Len(ai_response.tool_calls)
       ]_vars
  /\ [](raised_by \in {"none", "model", "tool"})
  /\ []((pc = "loop" /\ iteration < max_iterations) => ENABLED InvokeModel)

C5_Witness ==
  /\ pc = "loop"
  /\ iteration > 0
  /\ iteration < max_iterations
  /\ Len(ai_response.tool_calls) = 2
  /\ ~(ai_response.tool_calls[1].name \in tool_map)
  /\ ai_response.tool_calls[2].name \in tool_map
  /\ tool_messages[1].content = NotFound(ai_response.tool_calls[1].name)
  /\ tool_messages[2].content = ToolOutput(ai_response.tool_calls[2].name)

\* Every response with tool calls in the transcript t is followed at once
\* by one tool message per call, in the order of the calls and with their
\* ids.
Answered(t) ==
  \A k \in 1..Len(t) :
    (t[k].type = "ai" /\ t[k].tool_calls # << >>) =>
      LET calls == t[k].tool_calls
      IN  /\ Len(t) >= k + Len(calls)
          /\ \A i \in 1..Len(calls) :
               /\ t[k + i].type = "tool"
               /\ t[k + i].tool_call_id = calls[i].id

\* C6: a tool invocation that raises does not make process_chat raise.
C6_ToolFaultRecovered == raised_by # "tool"

\* C7: the model is never invoked on a transcript in which a response with
\* tool calls lacks the tool message of one of its calls.
C7_InvokedOnAnsweredTranscript == Answered(llm_input)

\* C8: the returned response has no tool calls exactly when the turn ended
\* at the fixpoint return, and has at least one exactly when it ended at the
\* return after the loop, the one that prints the warning.
C8_CappedIffLeftoverCalls ==
  pc = "returned" =>
    /\ (ai_response.tool_calls = << >>) <=> (~capped /\ iteration < max_iterations)
    /\ (Len(ai_response.tool_calls) >= 1) <=> (capped /\ iteration = max_iterations)

C8_Witness ==
  /\ pc = "returned"
  /\ ~capped
  /\ model_calls = max_iterations
  /\ ai_response.tool_calls = << >>

\* C9: the history main() keeps never holds a response with tool calls
\* that is not followed by its tool messages.
C9_HistoryAnswered == Answered(chat_history)

\* C10: at the return after the loop no tool was run and no tool message
\* was made for the tool calls of the returned response.
C10_ReturnedCallsNotRun ==
  (pc = "returned" /\ capped) =>
    \A i \in 1..Len(ai_response.tool_calls) :
      /\ ai_response.tool_calls[i].id \notin executed
      /\ \A j \in 1..Len(tool_messages) :
           tool_messages[j].tool_call_id # ai_response.tool_calls[i].id

\* C11: a model invocation that fails, whichever of the turn's invocations
\* it is, leaves process_chat as an exception that nothing catches: the step
\* changes neither the transcripts nor the response, and afterwards no model
\* invocation, no tool invocation and no other step happens.
C11_ModelFaultPropagates ==
  [][ /\ (raised_by = "none" /\ raised_by' = "model") =>
           /\ pc = "loop"
           /\ pc' = "raised"
           /\ model_calls' = model_calls + 1
           /\ model_calls' \in 1..max_iterations
           /\ responses' = responses
           /\ ai_response' = ai_response
           /\ chat_history' = chat_history
           /\ current_messages' = current_messages
           /\ tool_invocations' = tool_invocations
      /\ raised_by = "model" =>
           /\ pc = "raised"
           /\ model_calls' = model_calls
           /\ tool_invocations' = tool_invocations
           /\ lookups' = lookups
           /\ chat_history' = chat_history
    ]_vars

C11_Witness ==
  /\ pc = "raised"
  /\ raised_by = "model"
  /\ model_calls = max_iterations
  /\ Len(responses) = max_iterations - 1
  /\ tool_invocations > 0

HasDuplicateNames(ts) ==
  \E i, j \in 1..Len(ts) : i # j /\ ts[i].name = ts[j].name

C13_HistoryFrame ==
  /\ [][ /\ (pc \in {"loop", "dispatch"}) => chat_history' = chat_history
         /\ (pc = "returned" /\ pc' = "prompt") =>
              /\ ai_response = responses[Len(responses)]
              /\ chat_history' = Append(chat_history, ai_response)
              /\ Len(chat_history') = 2 * turns
         /\ (pc = "prompt" /\ pc' = "loop") =>
              /\ chat_history' = Append(chat_history, [type |-> "human"])
              /\ current_messages' = chat_history'
       ]_vars
  /\ [](Len(chat_history) = IF pc \in {"prompt", "exited"} THEN 2 * turns ELSE 2 * turns - 1)
  /\ [](\A k \in 1..Len(chat_history) :
          chat_history[k].type = IF k % 2 = 1 THEN "human" ELSE "ai")

C13_Witness ==
  /\ pc = "prompt"
  /\ turns = MaxTurns
  /\ Len(chat_history) = 2 * MaxTurns
  /\ Len(current_messages) > Len(chat_history)
  /\ chat_history[2].tool_calls # << >>

\* The steps between the places of the loop that the state machine allows:
\* awaiting the model is "loop" below the cap, dispatching is "dispatch" and
\* the loop test that follows the fold, done is "returned"; a raise leaves
\* the machine, and main() leads from done to the next prompt.
LoopTransitions ==
  { << "prompt", "loop" >>, << "prompt", "exited" >>,
    << "loop", "returned" >>, << "loop", "dispatch" >>, << "loop", "raised" >>,
    << "dispatch", "dispatch" >>, << "dispatch", "loop" >>, << "dispatch", "raised" >>,
    << "returned", "prompt" >> }

\* C14: a response without tool calls always ends the turn at the fixpoint
\* return, without the warning, the 10th response included; one with tool
\* calls always starts dispatch; the return with the warning is taken only
\* from the loop test after the fold of the 10th round; and after either
\* return the turn makes no model invocation, lookup or tool invocation.
C14_LoopStateMachine ==
  [][ /\ << pc, pc' >> \in LoopTransitions
      /\ (pc = "loop" /\ responses' # responses) =>
           /\ model_calls < max_iterations
           /\ ai_response' = responses'[Len(responses')]
           /\ IF ai_response'.tool_calls = << >>
                THEN pc' = "returned" /\ capped' = FALSE
                ELSE pc' = "dispatch"
      /\ (pc' = "loop" /\ iteration' = max_iterations) => pc = "dispatch"
      /\ (pc = "loop" /\ iteration = max_iterations) => (pc' = "returned" /\ capped')
      /\ (capped' /\ ~capped) =>
           /\ pc = "loop"
           /\ pc' = "returned"
           /\ iteration = max_iterations
           /\ model_calls = max_iterations
           /\ ai_response.tool_calls # << >>
           /\ current_messages = llm_input \o << ai_response >> \o tool_messages
           /\ Len(tool_messages) = Len(ai_response.tool_calls)
      /\ pc = "returned" =>
           /\ pc' = "prompt"
           /\ model_calls' = model_calls
           /\ lookups' = lookups
           /\ tool_invocations' = tool_invocations
    ]_vars

C14_Witness ==
  /\ pc = "returned"
  /\ ~capped
  /\ iteration = max_iterations - 1
  /\ Len(responses) = max_iterations
  /\ responses[max_iterations].tool_calls = << >>
  /\ tool_invocations = max_iterations - 1

\* C15: the status, journal and dependency tools query with unit_name
\* followed by ".service" when unit_name holds no dot and with unit_name
\* itself otherwise; the three rules agree on every name, and each gives the
\* queried name back when applied to it.
C15_UnitNameNormalized ==
  (tool_call # Idle /\ tool_call.tool # "list_failed_units") =>
    LET u == tool_call.unit_name
        expected == IF \E i \in 1..Len(u) : u[i] = "."
                      THEN u
                      ELSE u \o << ".", "s", "e", "r", "v", "i", "c", "e" >>
    IN  /\ manager_query.unit = expected
        /\ StatusUnitName(u) = expected
        /\ JournalUnitName(u) = expected
        /\ DependenciesUnitName(u) = expected
        /\ StatusUnitName(manager_query.unit) = manager_query.unit
        /\ JournalUnitName(manager_query.unit) = manager_query.unit
        /\ DependenciesUnitName(manager_query.unit) = manager_query.unit
        /\ tool_call.tool = "get_unit_dependencies" => tool_output.unit_name = expected

C15_Witness ==
  /\ tool_call # Idle
  /\ tool_call.tool = "get_journal_logs"
  /\ tool_call.unit_name = << "a" >>
  /\ manager_query.unit = << "a", ".", "s", "e", "r", "v", "i", "c", "e" >>

\* C16: when the properties were read, the summary counts Requires and
\* Wants as dependencies, RequiredBy and WantedBy as dependents, and its
\* flags tell whether Requires, Wants, and RequiredBy or WantedBy hold a
\* unit; After and Before are not counted.
C16_DependencySummary ==
  (tool_call # Idle /\ tool_call.tool = "get_unit_dependencies" /\ tool_call.reply = "properties") =>
    LET sm == tool_output.summary
    IN  /\ sm.total_dependencies = Len(tool_call.requires) + Len(tool_call.wants)
        /\ sm.total_dependents = Len(tool_call.required_by) + Len(tool_call.wanted_by)
        /\ sm.has_hard_dependencies <=> Len(tool_call.requires) > 0
        /\ sm.has_soft_dependencies <=> Len(tool_call.wants) > 0
        /\ sm.has_dependents <=> (Len(tool_call.required_by) > 0 \/ Len(tool_call.wanted_by) > 0)
        /\ tool_output.dependencies.requires = tool_call.requires
        /\ tool_output.dependencies.after = tool_call.after

C16_Witness ==
  /\ tool_call # Idle
  /\ tool_call.tool = "get_unit_dependencies"
  /\ tool_call.reply = "properties"
  /\ Len(tool_call.requires) = 2
  /\ tool_call.wants = << >>
  /\ tool_call.required_by = << >>
  /\ tool_call.wanted_by = << >>
  /\ tool_call.after # << >>
  /\ tool_output.summary.total_dependencies = 2
  /\ tool_output.summary.has_hard_dependencies
  /\ ~tool_output.summary.has_dependents

\* C17: when the units were listed, failed_units holds the names of the
\* units whose active state is 'failed', each once and in the order of the
\* listing; count is its length, has_failures tells whether it is positive,
\* and the summary says that no failed units were found exactly when it is
\* empty.
C17_FailedUnits ==
  (tool_call # Idle /\ tool_call.tool = "list_failed_units" /\ tool_call.reply = "units") =>
    LET units == tool_call.units
        failed == { i \in 1..Len(units) : units[i][4] = "failed" }
        out == tool_output.failed_units
        \* the k-th failed unit of the listing
        Nth(k) == CHOOSE i \in failed : Cardinality({ j \in failed : j < i }) = k - 1
    IN  /\ Len(out) = Cardinality(failed)
        /\ \A k \in 1..Len(out) : out[k] = units[Nth(k)][1]
        /\ tool_output.count = Len(out)
        /\ tool_output.has_failures <=> tool_output.count > 0
        /\ (tool_output.summary = [text |-> "no_failed_units_found"]) <=> (out = << >>)
        /\ out # << >> => tool_output.summary = [text |-> "found_failed", n |-> Len(out)]

C17_Witness ==
  /\ tool_call # Idle
  /\ tool_call.tool = "list_failed_units"
  /\ tool_call.reply = "units"
  /\ Len(tool_call.units) = 3
  /\ tool_call.units[1][4] = "active"
  /\ tool_output.failed_units = << "b.service", "a.service" >>
  /\ tool_output.count = 2
  /\ tool_output.has_failures

====
